---- MODULE Spec2Model ----
(***************************************************************************)
(* Climate Future Explorer: the request handler of main.py and the         *)
(* aggregation core of data_handler.py (monthly aggregation, windowed      *)
(* statistics, window differ, prompt building).                            *)
(*                                                                         *)
(* Numbers.  pandas works on floats; the model works on exact rationals    *)
(* [n |-> numerator, d |-> denominator], kept in lowest terms with d > 0.  *)
(* NaN (the mean, max or min of no values) is [n |-> 0, d |-> 0].          *)
(*                                                                         *)
(* Frames.  A DataFrame is a function from column name to a column, a      *)
(* sequence with one entry per row; all columns have the same length.      *)
(*                                                                         *)
(* Dates.  A daily timestamp is a day number, a monthly timestamp is a     *)
(* month number (12 * year + month - 1).  The calendar of the model has    *)
(* DaysPerMonth days in every month.                                       *)
(***************************************************************************)
EXTENDS Integers, Sequences, FiniteSets, TLC

VARIABLES
    \* ---- one request of main.py's submit handler
    pc,             \* position of the handler
    address,        \* st.text_input
    year,           \* st.date_input (the year of the chosen date)
    geo_data,       \* response.json() inside get_location_data
    location_data,  \* result of get_location_data
    daily_df,       \* the daily frame built inside get_climate_data
    df,             \* the monthly frame returned by get_climate_data
    prompt,         \* what get_ai_analysis hands to client.messages.create
    response_text,  \* what get_ai_analysis returns
    banner,         \* the messages st.error has shown
    calls,          \* the functions and collaborators called, in order
    http_attempts,  \* HTTP requests the session of get_climate_data sent
    caught,         \* the exception the except clause caught (`e`)
    \* ---- analyze_climate_data on a monthly table
    a_pc,           \* "input", "done"
    a_df,           \* the table passed in (analyze_climate_data adds columns)
    a_in,           \* [now, target, window_size] of the call
    a_runs,         \* what each call made so far on a_df returned or raised
    \* ---- compute_changes on two nested dictionaries
    d_pc,           \* "input", "done"
    d_current,
    d_future,
    d_out

vars == <<pc, address, year, geo_data, location_data, daily_df, df, prompt,
          response_text, banner, calls, http_attempts, caught,
          a_pc, a_df, a_in, a_runs,
          d_pc, d_current, d_future, d_out>>

reqVars == <<pc, address, year, geo_data, location_data, daily_df, df, prompt,
             response_text, banner, calls, http_attempts, caught>>
anaVars == <<a_pc, a_df, a_in, a_runs>>
diffVars == <<d_pc, d_current, d_future, d_out>>

\* Python's None
None == [t |-> "none"]

(***************************************************************************)
(* Bounds                                                                  *)
(***************************************************************************)
\* days in a month of the model's calendar
DaysPerMonth == 2
\* most days in a climate response
MaxDays == 5
\* most rows of a monthly table handed to analyze_climate_data
MaxRows == 3
\* largest leaf value of the dictionaries handed to compute_changes alone
MaxLeaf == 1

(***************************************************************************)
(* Exact arithmetic                                                        *)
(***************************************************************************)
Abs(x) == IF x < 0 THEN -x ELSE x

RECURSIVE GCD(_, _)
GCD(a, b) == IF b = 0 THEN a ELSE GCD(b, a % b)

NaN == [n |-> 0, d |-> 0]
IsNaN(x) == x.d = 0

\* n / d in lowest terms, d # 0
Rat(n, d) ==
    LET g == GCD(Abs(n), Abs(d))
        s == IF d < 0 THEN -1 ELSE 1
    IN  [n |-> s * (n \div g), d |-> s * (d \div g)]

Num(i) == [n |-> i, d |-> 1]

RAdd(x, y) == IF IsNaN(x) \/ IsNaN(y) THEN NaN
              ELSE Rat(x.n * y.d + y.n * x.d, x.d * y.d)
RSub(x, y) == IF IsNaN(x) \/ IsNaN(y) THEN NaN
              ELSE Rat(x.n * y.d - y.n * x.d, x.d * y.d)
RMul(x, y) == IF IsNaN(x) \/ IsNaN(y) THEN NaN
              ELSE Rat(x.n * y.n, x.d * y.d)
\* x / k for an integer k # 0
RDivInt(x, k) == IF IsNaN(x) THEN NaN ELSE Rat(x.n, x.d * k)
\* comparisons with NaN are false, as for floats
RLt(x, y) == ~IsNaN(x) /\ ~IsNaN(y) /\ x.n * y.d < y.n * x.d
RGt(x, y) == RLt(y, x)

(***************************************************************************)
(* Series (columns) and frames                                             *)
(***************************************************************************)
RECURSIVE DropNa(_)
DropNa(s) == IF s = <<>> THEN <<>>
             ELSE IF IsNaN(Head(s)) THEN DropNa(Tail(s))
             ELSE <<Head(s)>> \o DropNa(Tail(s))

RECURSIVE SumSeq(_)
SumSeq(s) == IF s = <<>> THEN Num(0) ELSE RAdd(Head(s), SumSeq(Tail(s)))

RECURSIVE MaxSeq(_)
MaxSeq(s) == IF Len(s) = 1 THEN Head(s)
             ELSE LET m == MaxSeq(Tail(s))
                  IN  IF RGt(Head(s), m) THEN Head(s) ELSE m

RECURSIVE MinSeq(_)
MinSeq(s) == IF Len(s) = 1 THEN Head(s)
             ELSE LET m == MinSeq(Tail(s))
                  IN  IF RLt(Head(s), m) THEN Head(s) ELSE m

\* Series.sum(): the sum of the values that are not NaN, 0 for none
SeriesSum(s) == SumSeq(DropNa(s))
\* Series.mean(): the mean of the values that are not NaN, NaN for none
SeriesMean(s) ==
    LET v == DropNa(s)
    IN  IF v = <<>> THEN NaN ELSE RDivInt(SumSeq(v), Len(v))
\* Series.max(), Series.min(): NaN for no values
SeriesMax(s) == LET v == DropNa(s) IN IF v = <<>> THEN NaN ELSE MaxSeq(v)
SeriesMin(s) == LET v == DropNa(s) IN IF v = <<>> THEN NaN ELSE MinSeq(v)

\* the positions of s, ascending, whose entry satisfies the mask
RECURSIVE MaskIdx(_, _)
MaskIdx(mask, i) ==
    IF i > Len(mask) THEN <<>>
    ELSE (IF mask[i] THEN <<i>> ELSE <<>>) \o MaskIdx(mask, i + 1)

\* column[mask]
Take(col, idx) == [k \in 1..Len(idx) |-> col[idx[k]]]
\* frame[mask]: the rows whose mask entry is true, in their order
FrameMask(frame, mask) ==
    LET idx == MaskIdx(mask, 1)
    IN  [c \in DOMAIN frame |-> Take(frame[c], idx)]

NRows(frame) == Len(frame["date"])

SetMin(S) == CHOOSE x \in S : \A y \in S : x <= y
SetMax(S) == CHOOSE x \in S : \A y \in S : x >= y

\* the entries of a sequence
Range(q) == {q[k] : k \in 1..Len(q)}

\* the ten climate variables, in the order of the request
ClimateVars == <<"temperature_2m_mean", "temperature_2m_max",
                 "temperature_2m_min", "wind_speed_10m_max",
                 "cloud_cover_mean", "shortwave_radiation_sum",
                 "relative_humidity_2m_max", "relative_humidity_2m_min",
                 "precipitation_sum", "snowfall_sum">>
ClimateVarSet == {ClimateVars[i] : i \in 1..Len(ClimateVars)}

\* Series.dt.year and Series.dt.month of a monthly timestamp
DtYear(m) == m \div 12
DtMonth(m) == (m % 12) + 1
\* the month a daily timestamp falls in
MonthOfDay(day) == day \div DaysPerMonth
\* the monthly timestamp of (year, month)
MonthStamp(y, m) == 12 * y + (m - 1)

(***************************************************************************)
(* get_location_data                                                       *)
(***************************************************************************)
\* Python truth of data.get(key) for a key that holds a list
TruthyList(dict, key) == key \in DOMAIN dict /\ dict[key] # <<>>
\* Python truth of a value that is None or a tuple of three
Truthy(v) == v # None

\* what response.json() of the geocoding service can be
GeoResponses ==
    { [generationtime_ms |-> 1],
      [generationtime_ms |-> 1, results |-> <<>>],
      [generationtime_ms |-> 1,
       results |-> <<[latitude |-> 47, longitude |-> -122,
                      name |-> "Seattle"]>>] }

\* a variant that answers no match with a tuple of blanks
get_location_data_tuple(data) ==
    IF TruthyList(data, "results")
    THEN [latitude |-> data["results"][1].latitude,
          longitude |-> data["results"][1].longitude,
          name |-> data["results"][1].name]
    ELSE [latitude |-> 0, longitude |-> 0, name |-> ""]

\* the tuple (latitude, longitude, name) is a record of three fields
get_location_data(data) ==
    IF TruthyList(data, "results")
    THEN [latitude |-> data["results"][1].latitude,
          longitude |-> data["results"][1].longitude,
          name |-> data["results"][1].name]
    ELSE None

(***************************************************************************)
(* get_climate_data                                                        *)
(***************************************************************************)
\* the ten variables of one day, as the climate service may report them
DailySamples ==
    << [temperature_2m_mean |-> 10, temperature_2m_max |-> 15,
        temperature_2m_min |-> 5, wind_speed_10m_max |-> 20,
        cloud_cover_mean |-> 50, shortwave_radiation_sum |-> 12,
        relative_humidity_2m_max |-> 80, relative_humidity_2m_min |-> 40,
        precipitation_sum |-> 0, snowfall_sum |-> 3],
       [temperature_2m_mean |-> 13, temperature_2m_max |-> 22,
        temperature_2m_min |-> 4, wind_speed_10m_max |-> 7,
        cloud_cover_mean |-> 35, shortwave_radiation_sum |-> 19,
        relative_humidity_2m_max |-> 91, relative_humidity_2m_min |-> 30,
        precipitation_sum |-> 6, snowfall_sum |-> 0] >>

\* the interval of the "daily" block of a response, in days
DailyInterval == 1

\* the first day of the responses of the model
StartDays == { DaysPerMonth * MonthStamp(2024, 11),
               DaysPerMonth * MonthStamp(2028, 12) + 1,
               DaysPerMonth * MonthStamp(2029, 6) }

RECURSIVE SeqsUpTo(_, _)
\* the sequences over S of length at most n
SeqsUpTo(S, n) ==
    IF n = 0 THEN {<<>>}
    ELSE LET shorter == SeqsUpTo(S, n - 1)
         IN  shorter \cup {Append(q, x) : q \in shorter, x \in S}

\* the daily blocks the climate service may return: Time(), TimeEnd(),
\* Interval() and one value array per variable, each of one value per day
ClimateResponses ==
    { [Time |-> start, TimeEnd |-> start + Len(days) * DailyInterval,
       Interval |-> DailyInterval,
       Variables |-> [i \in 1..Len(ClimateVars) |->
                        [k \in 1..Len(days) |->
                            Num(DailySamples[days[k]][ClimateVars[i]])]]]
      : start \in StartDays,
        days \in SeqsUpTo(1..Len(DailySamples), MaxDays) }

\* pd.date_range(start, end, freq, inclusive="left")
date_range(start, end, freq) ==
    LET count == IF end > start THEN ((end - start) + freq - 1) \div freq
                 ELSE 0
    IN  [k \in 1..count |-> start + (k - 1) * freq]

\* the daily DataFrame of get_climate_data
DailyFrame(daily) ==
    [c \in {"date"} \cup ClimateVarSet |->
        IF c = "date"
        THEN date_range(daily.Time, daily.TimeEnd, daily.Interval)
        ELSE daily.Variables[CHOOSE i \in 1..Len(ClimateVars) :
                                        ClimateVars[i] = c]]

\* a variant that averages precipitation
MonthlyAggSwapped ==
    [c \in ClimateVarSet |->
        IF c \in {"shortwave_radiation_sum", "snowfall_sum"}
        THEN "sum" ELSE "mean"]

\* the reducer of each variable in the monthly aggregation
MonthlyAgg ==
    [c \in ClimateVarSet |->
        IF c \in {"shortwave_radiation_sum", "precipitation_sum",
                  "snowfall_sum"}
        THEN "sum" ELSE "mean"]

Reduce(how, s) == IF how = "sum" THEN SeriesSum(s) ELSE SeriesMean(s)

\* a variant whose bins run one month past the last timestamp
ResampleBinsPadded(dates) ==
    LET ms == {MonthOfDay(dates[k]) : k \in 1..Len(dates)}
    IN  IF ms = {} THEN <<>>
        ELSE [k \in 1..(SetMax(ms) - SetMin(ms) + 2) |-> SetMin(ms) + k - 1]

\* the bins of resample('M'): every month from that of the first timestamp
\* to that of the last, whether or not a row falls in it
ResampleBins(dates) ==
    LET ms == {MonthOfDay(dates[k]) : k \in 1..Len(dates)}
    IN  IF ms = {} THEN <<>>
        ELSE [k \in 1..(SetMax(ms) - SetMin(ms) + 1) |-> SetMin(ms) + k - 1]

\* daily_df.set_index('date').resample('M').agg(how).reset_index()
resample_agg(daily, how) ==
    LET bins == ResampleBins(daily["date"])
        rows(b) == MaskIdx([k \in 1..NRows(daily) |->
                               MonthOfDay(daily["date"][k]) = b], 1)
    IN  [c \in {"date"} \cup ClimateVarSet |->
            IF c = "date" THEN bins
            ELSE [k \in 1..Len(bins) |->
                    Reduce(how[c], Take(daily[c], rows(bins[k])))]]

\* the monthly frame get_climate_data returns for a response
get_climate_data(daily) == resample_agg(DailyFrame(daily), MonthlyAgg)

(***************************************************************************)
(* calculate_temp_mean, calculate_seasonal_metrics, get_ai_analysis        *)
(***************************************************************************)
\* the year the prompt takes as the present
PromptCurrentYear == 2024

\* data[data['date'].dt.year == year]['temperature_2m_mean'].mean()
calculate_temp_mean(data, y) ==
    LET rows == FrameMask(data, [k \in 1..NRows(data) |->
                                    DtYear(data["date"][k]) = y])
    IN  SeriesMean(rows["temperature_2m_mean"])

\* the season map of calculate_seasonal_metrics
SeasonOfMonth(m) ==
    CASE m \in {12, 1, 2} -> "winter"
      [] m \in {3, 4, 5} -> "spring"
      [] m \in {6, 7, 8} -> "summer"
      [] m \in {9, 10, 11} -> "fall"

\* Series.std() squared: the sample variance, NaN for fewer than two values
SeriesVar(s) ==
    LET v == DropNa(s)
        mean == SeriesMean(v)
        sq == [k \in 1..Len(v) |-> RMul(RSub(v[k], mean), RSub(v[k], mean))]
    IN  IF Len(v) < 2 THEN NaN ELSE RDivInt(SumSeq(sq), Len(v) - 1)

\* one row per season present in the year; std is given by its square
calculate_seasonal_metrics(data, y) ==
    LET rows == FrameMask(data, [k \in 1..NRows(data) |->
                                    DtYear(data["date"][k]) = y])
        season == [k \in 1..NRows(rows) |->
                      SeasonOfMonth(DtMonth(rows["date"][k]))]
        group(g) == FrameMask(rows, [k \in 1..NRows(rows) |-> season[k] = g])
    IN  [g \in {season[k] : k \in 1..NRows(rows)} |->
            [temperature_2m_mean_mean |->
                 SeriesMean(group(g)["temperature_2m_mean"]),
             temperature_2m_mean_std_squared |->
                 SeriesVar(group(g)["temperature_2m_mean"]),
             precipitation_sum_sum |->
                 SeriesSum(group(g)["precipitation_sum"]),
             shortwave_radiation_sum_mean |->
                 SeriesMean(group(g)["shortwave_radiation_sum"])]]

\* combined_content: the table and the prompt with its variables filled in
PromptOf(location_name, data, y) ==
    [table |-> data,
     location_name |-> location_name,
     year |-> y,
     temp_mean_current |-> calculate_temp_mean(data, PromptCurrentYear),
     temp_mean_future |-> calculate_temp_mean(data, y),
     seasonal_current |-> calculate_seasonal_metrics(data, PromptCurrentYear),
     seasonal_future |-> calculate_seasonal_metrics(data, y)]

(***************************************************************************)
(* analyze_climate_data: get_window_stats                                  *)
(***************************************************************************)
\* a nested dictionary of statistics: a float leaf, or a dict with its keys
\* in insertion order
Leaf(x) == [t |-> "leaf", v |-> x]
Dict(keys, items) == [t |-> "dict", keys |-> keys, items |-> items]

\* a variant that leaves the first year of the band out
InWindowStrict(y, center_year, window_size) ==
    /\ y > center_year - (window_size \div 2)
    /\ y <= center_year + (window_size \div 2)

\* the mask of window_data: year within window_size // 2 of the center year
InWindow(y, center_year, window_size) ==
    /\ y >= center_year - (window_size \div 2)
    /\ y <= center_year + (window_size \div 2)

\* window_data of get_window_stats
WindowData(frame, center_year, window_size) ==
    FrameMask(frame, [k \in 1..NRows(frame) |->
                         InWindow(frame["year"][k], center_year, window_size)])

RECURSIVE Insert(_, _)
Insert(x, sorted) ==
    IF sorted = <<>> THEN <<x>>
    ELSE IF RLt(Head(sorted), x) THEN <<Head(sorted)>> \o Insert(x, Tail(sorted))
    ELSE <<x>> \o sorted

RECURSIVE Sort(_)
Sort(s) == IF s = <<>> THEN <<>> ELSE Insert(Head(s), Sort(Tail(s)))

\* Series.quantile(0.95): linear interpolation between the two order
\* statistics around position 0.95 * (n - 1)
Quantile95(s) ==
    LET v == Sort(DropNa(s))
        lo == (19 * (Len(v) - 1)) \div 20
        r == (19 * (Len(v) - 1)) % 20
    IN  IF v = <<>> THEN NaN
        ELSE IF r = 0 THEN v[lo + 1]
        ELSE RAdd(v[lo + 1], RMul(Rat(r, 20), RSub(v[lo + 2], v[lo + 1])))

\* len(window_data[window_data[col] > threshold])
CountAbove(col, threshold) ==
    Len(MaskIdx([k \in 1..Len(col) |-> RGt(col[k], threshold)], 1))

RECURSIVE SortedInts(_)
\* the members of a set of integers, ascending
SortedInts(S) == IF S = {} THEN <<>>
                 ELSE <<SetMin(S)>> \o SortedInts(S \ {SetMin(S)})

\* window_data.groupby('year').agg({col: 'sum'})[col]
AnnualSums(window_data, col) ==
    LET years == SortedInts(Range(window_data["year"]))
    IN  [i \in 1..Len(years) |->
            SeriesSum(Take(window_data[col],
                           MaskIdx([k \in 1..NRows(window_data) |->
                                       window_data["year"][k] = years[i]], 1)))]

\* a variant that divides by the number of years present in the window
EventRatePerYearPresent(count, window_size, window_data) ==
    Rat(count, Cardinality(Range(window_data["year"])))

\* len(...) / window_size
EventRate(count, window_size, window_data) == Rat(count, window_size)

\* a variant that sums the months of the season
SeasonPrecipSum(precip) == SeriesSum(precip)

\* season_data['precipitation_sum'].mean() * 3
SeasonPrecipTotal(precip) == RMul(SeriesMean(precip), Num(3))

\* the seasons of get_window_stats, in the order of the dict
SeasonNames == <<"winter", "spring", "summer", "autumn">>
\* a variant whose winter list lacks December
SeasonMonthsNoDecember == [winter |-> {1, 2}, spring |-> {3, 4, 5},
                           summer |-> {6, 7, 8}, autumn |-> {9, 10, 11}]
SeasonMonths == [winter |-> {12, 1, 2}, spring |-> {3, 4, 5},
                 summer |-> {6, 7, 8}, autumn |-> {9, 10, 11}]

\* window_data[window_data['month'].isin(months)]
SeasonData(window_data, months) ==
    FrameMask(window_data, [k \in 1..NRows(window_data) |->
                               window_data["month"][k] \in months])

SeasonStats(season_data) ==
    Dict(<<"temp_mean", "temp_max", "temp_min", "precip_total", "wind_max">>,
         [temp_mean |-> Leaf(SeriesMean(season_data["temperature_2m_mean"])),
          temp_max |-> Leaf(SeriesMax(season_data["temperature_2m_max"])),
          temp_min |-> Leaf(SeriesMin(season_data["temperature_2m_min"])),
          precip_total |->
              Leaf(SeasonPrecipTotal(season_data["precipitation_sum"])),
          wind_max |-> Leaf(SeriesMax(season_data["wind_speed_10m_max"]))])

\* the dict get_window_stats returns for a window that has rows
WindowStats(window_data, window_size) ==
    Dict(<<"means", "extremes", "cumulative", "extreme_events", "seasonal">>,
     [means |->
        Dict(<<"temp_mean", "cloud_cover", "radiation", "humidity_mean">>,
         [temp_mean |-> Leaf(SeriesMean(window_data["temperature_2m_mean"])),
          cloud_cover |-> Leaf(SeriesMean(window_data["cloud_cover_mean"])),
          radiation |->
              Leaf(SeriesMean(window_data["shortwave_radiation_sum"])),
          humidity_mean |->
              Leaf(RDivInt(
                  RAdd(SeriesMean(window_data["relative_humidity_2m_max"]),
                       SeriesMean(window_data["relative_humidity_2m_min"])),
                  2))]),
      extremes |->
        Dict(<<"temp_max", "temp_min", "wind_max", "humidity_max",
               "humidity_min">>,
         [temp_max |-> Leaf(SeriesMax(window_data["temperature_2m_max"])),
          temp_min |-> Leaf(SeriesMin(window_data["temperature_2m_min"])),
          wind_max |-> Leaf(SeriesMax(window_data["wind_speed_10m_max"])),
          humidity_max |->
              Leaf(SeriesMax(window_data["relative_humidity_2m_max"])),
          humidity_min |->
              Leaf(SeriesMin(window_data["relative_humidity_2m_min"]))]),
      cumulative |->
        Dict(<<"precip_annual_mean", "precip_monthly_max",
               "snow_annual_mean", "snow_monthly_max">>,
         [precip_annual_mean |->
              Leaf(SeriesMean(AnnualSums(window_data, "precipitation_sum"))),
          precip_monthly_max |->
              Leaf(SeriesMax(window_data["precipitation_sum"])),
          snow_annual_mean |->
              Leaf(SeriesMean(AnnualSums(window_data, "snowfall_sum"))),
          snow_monthly_max |-> Leaf(SeriesMax(window_data["snowfall_sum"]))]),
      extreme_events |->
        Dict(<<"hot_days_annual", "heavy_rain_annual", "high_wind_annual">>,
         [hot_days_annual |->
              Leaf(EventRate(
                  CountAbove(window_data["temperature_2m_max"],
                             Quantile95(window_data["temperature_2m_max"])),
                  window_size, window_data)),
          heavy_rain_annual |->
              Leaf(EventRate(
                  CountAbove(window_data["precipitation_sum"],
                             Quantile95(window_data["precipitation_sum"])),
                  window_size, window_data)),
          high_wind_annual |->
              Leaf(EventRate(
                  CountAbove(window_data["wind_speed_10m_max"],
                             Quantile95(window_data["wind_speed_10m_max"])),
                  window_size, window_data))]),
      seasonal |->
        Dict(SeasonNames,
         [g \in Range(SeasonNames) |->
            SeasonStats(SeasonData(window_data, SeasonMonths[g]))])])

\* get_window_stats(center_date) on the frame of the enclosing call
get_window_stats(frame, center_year, window_size) ==
    IF NRows(WindowData(frame, center_year, window_size)) = 0
    THEN None
    ELSE WindowStats(WindowData(frame, center_year, window_size), window_size)

(***************************************************************************)
(* analyze_climate_data: compute_changes                                   *)
(***************************************************************************)
\* changes.update(more): the entries of more replace those of changes
DictUpdate(changes, more) ==
    [k \in DOMAIN changes \cup DOMAIN more |->
        IF k \in DOMAIN more THEN more[k] ELSE changes[k]]

NoChanges == [k \in {} |-> NaN]

\* what compute_changes returns, or the exception it raises
Changes(c) == [raises |-> FALSE, exception |-> "", changes |-> c]
Raises(exc) == [raises |-> TRUE, exception |-> exc, changes |-> NoChanges]

\* future[key]: a dict lacking the key raises KeyError, anything else that
\* is not a dict (None, a float) raises TypeError
Subscript(future, key) ==
    IF future.t # "dict" THEN Raises("TypeError")
    ELSE IF key \notin Range(future.keys) THEN Raises("KeyError")
    ELSE Changes(NoChanges)

RECURSIVE compute_changes(_, _, _)
RECURSIVE compute_changes_flat(_, _, _)
RECURSIVE ChangesLoop(_, _, _, _, _)
RECURSIVE ChangesLoopFlat(_, _, _, _, _)

\* the for loop of compute_changes from the i-th key on, `changes` being
\* the dict built so far
ChangesLoop(current, future, prefix, i, changes) ==
    IF i > Len(current.keys) THEN Changes(changes)
    ELSE
      LET key == current.keys[i]
          item == current.items[key]
      IN
        IF Subscript(future, key).raises THEN Subscript(future, key)
        ELSE IF item.t = "dict"
        THEN LET sub == compute_changes(item, future.items[key],
                                        prefix \o key \o "_")
             IN  IF sub.raises THEN sub
                 ELSE ChangesLoop(current, future, prefix, i + 1,
                                  DictUpdate(changes, sub.changes))
        ELSE IF future.items[key].t # "leaf" THEN Raises("TypeError")
        ELSE ChangesLoop(current, future, prefix, i + 1,
                 DictUpdate(changes,
                     [k \in {prefix \o key \o "_change"} |->
                         RSub(future.items[key].v, item.v)]))

\* a variant of the loop whose recursive call takes the key alone as prefix
ChangesLoopFlat(current, future, prefix, i, changes) ==
    IF i > Len(current.keys) THEN Changes(changes)
    ELSE
      LET key == current.keys[i]
          item == current.items[key]
      IN
        IF Subscript(future, key).raises THEN Subscript(future, key)
        ELSE IF item.t = "dict"
        THEN LET sub == compute_changes_flat(item, future.items[key],
                                             key \o "_")
             IN  IF sub.raises THEN sub
                 ELSE ChangesLoopFlat(current, future, prefix, i + 1,
                                      DictUpdate(changes, sub.changes))
        ELSE IF future.items[key].t # "leaf" THEN Raises("TypeError")
        ELSE ChangesLoopFlat(current, future, prefix, i + 1,
                 DictUpdate(changes,
                     [k \in {prefix \o key \o "_change"} |->
                         RSub(future.items[key].v, item.v)]))

compute_changes_flat(current, future, prefix) ==
    IF current.t # "dict" THEN Raises("AttributeError")
    ELSE ChangesLoopFlat(current, future, prefix, 1, NoChanges)

\* compute_changes(current, future, prefix); current.keys() raises
\* AttributeError when current is None
compute_changes(current, future, prefix) ==
    IF current.t # "dict" THEN Raises("AttributeError")
    ELSE ChangesLoop(current, future, prefix, 1, NoChanges)

(***************************************************************************)
(* analyze_climate_data                                                    *)
(***************************************************************************)
\* a variant that also moves every date to the end of the following month
\* (date + MonthEnd(1) on dates that already are month ends)
WithYearMonthRolled(frame) ==
    [c \in DOMAIN frame \cup {"year", "month"} |->
        IF c = "date" THEN [k \in 1..NRows(frame) |-> frame["date"][k] + 1]
        ELSE IF c = "year"
        THEN [k \in 1..NRows(frame) |-> DtYear(frame["date"][k] + 1)]
        ELSE IF c = "month"
        THEN [k \in 1..NRows(frame) |-> DtMonth(frame["date"][k] + 1)]
        ELSE frame[c]]
\* df['year'] = df['date'].dt.year; df['month'] = df['date'].dt.month
WithYearMonth(frame) ==
    [c \in DOMAIN frame \cup {"year", "month"} |->
        IF c = "year" THEN [k \in 1..NRows(frame) |-> DtYear(frame["date"][k])]
        ELSE IF c = "month"
        THEN [k \in 1..NRows(frame) |-> DtMonth(frame["date"][k])]
        ELSE frame[c]]

\* one call: the windows and statistics it computed and what it returned
\* ({'current', 'future', 'changes'}) or raised
analyze_climate_data(frame, now_year, target_year, window_size) ==
    LET data == WithYearMonth(frame)
        current_data == get_window_stats(data, now_year, window_size)
        future_data == get_window_stats(data, target_year, window_size)
        diff == compute_changes(current_data, future_data, "")
    IN  [raises |-> diff.raises,
         exception |-> diff.exception,
         current_window |-> WindowData(data, now_year, window_size),
         future_window |-> WindowData(data, target_year, window_size),
         current |-> current_data,
         future |-> future_data,
         changes |-> diff.changes]

\* the ten variables of one month of a table
MonthlySamples ==
    << [temperature_2m_mean |-> 10, temperature_2m_max |-> 15,
        temperature_2m_min |-> 5, wind_speed_10m_max |-> 20,
        cloud_cover_mean |-> 50, shortwave_radiation_sum |-> 300,
        relative_humidity_2m_max |-> 80, relative_humidity_2m_min |-> 40,
        precipitation_sum |-> 10, snowfall_sum |-> 3],
       [temperature_2m_mean |-> 13, temperature_2m_max |-> 22,
        temperature_2m_min |-> 4, wind_speed_10m_max |-> 7,
        cloud_cover_mean |-> 35, shortwave_radiation_sum |-> 410,
        relative_humidity_2m_max |-> 91, relative_humidity_2m_min |-> 30,
        precipitation_sum |-> 20, snowfall_sum |-> 0],
       [temperature_2m_mean |-> 12, temperature_2m_max |-> 18,
        temperature_2m_min |-> 7, wind_speed_10m_max |-> 20,
        cloud_cover_mean |-> 60, shortwave_radiation_sum |-> 250,
        relative_humidity_2m_max |-> 85, relative_humidity_2m_min |-> 45,
        precipitation_sum |-> 30, snowfall_sum |-> 1] >>

\* the first month of a table, and the months from one row to the next
StartMonths == {MonthStamp(2027, 12), MonthStamp(2030, 5),
                MonthStamp(2032, 8)}
MonthGaps == {1, 11}

RECURSIVE RowLists(_)
\* the row lists of at most n rows: <<month, sample>> pairs, months ascending
RowLists(n) ==
    IF n = 0 THEN {<<>>}
    ELSE LET shorter == RowLists(n - 1)
         IN  shorter
             \cup {<<<<m, x>>>> : m \in StartMonths,
                                  x \in 1..Len(MonthlySamples)}
             \cup {Append(q, <<q[Len(q)][1] + g, x>>) :
                      q \in {r \in shorter : Len(r) = n - 1 /\ r # <<>>},
                      g \in MonthGaps, x \in 1..Len(MonthlySamples)}

\* the monthly tables handed to analyze_climate_data
Tables ==
    { [c \in {"date"} \cup ClimateVarSet |->
          IF c = "date" THEN [k \in 1..Len(q) |-> q[k][1]]
          ELSE [k \in 1..Len(q) |-> Num(MonthlySamples[q[k][2]][c])]]
      : q \in RowLists(MaxRows) }

\* datetime.now().year, the target years and the window sizes of a call
NowYears == {2030}
TargetYears == {2033, 2100}
WindowSizes == {1, 4, 5}

AnaInit ==
    /\ a_pc = "input"
    /\ a_df \in Tables
    /\ a_in = None
    /\ a_runs = <<>>

\* analyze_climate_data(df, target_date, window_size)
Analyze ==
    /\ a_pc = "input"
    /\ \E now \in NowYears, target \in TargetYears, w \in WindowSizes :
        /\ a_in' = [now |-> now, target |-> target, window_size |-> w]
        /\ a_runs' = <<analyze_climate_data(a_df, now, target, w)>>
    /\ a_df' = WithYearMonth(a_df)
    /\ a_pc' = "done"
    /\ UNCHANGED <<reqVars, diffVars>>

\* the same call once more, on the table the first call left
AnalyzeAgain ==
    /\ a_pc = "done"
    /\ a_runs' = Append(a_runs,
                        analyze_climate_data(a_df, a_in.now, a_in.target,
                                             a_in.window_size))
    /\ a_df' = WithYearMonth(a_df)
    /\ a_pc' = "again"
    /\ UNCHANGED <<a_in, reqVars, diffVars>>

(***************************************************************************)
(* compute_changes on its own                                              *)
(***************************************************************************)
DiffKeys == <<"a", "b">>
Absent == [t |-> "absent"]

\* the dicts over DiffKeys whose values are taken from `values`
DictsOver(values) ==
    { LET present(k) == choice[k] # Absent
      IN  Dict(SelectSeq(DiffKeys, present),
               [k \in {x \in Range(DiffKeys) : present(x)} |-> choice[k]])
      : choice \in [Range(DiffKeys) -> {Absent} \cup values] }

DiffLeaves == {Leaf(Num(i)) : i \in 0..MaxLeaf}
\* None and the dicts of depth at most two
DiffInputs == {None} \cup DictsOver(DiffLeaves \cup DictsOver(DiffLeaves))

DiffInit ==
    /\ d_pc = "input"
    /\ d_current \in DiffInputs
    /\ d_future \in DiffInputs
    /\ d_out = None

\* changes = compute_changes(current, future)
Diff ==
    /\ d_pc = "input"
    /\ d_out' = compute_changes(d_current, d_future, "")
    /\ d_pc' = "done"
    /\ UNCHANGED <<d_current, d_future, reqVars, anaVars>>

(***************************************************************************)
(* main.py: one run of the script after "Analyze Future Impact"            *)
(***************************************************************************)
\* what the user may have typed, and the years the date picker offers
Addresses == {"", "1234 Main St, Seattle"}
PickedYears == {2029, 2030}

\* a collaborator call either raises or returns
Raised == [raises |-> TRUE, value |-> None]
Returned(v) == [raises |-> FALSE, value |-> v]

GeoOutcomes == {Raised} \cup {Returned(d) : d \in GeoResponses}
ClimateOutcomes == {Raised} \cup {Returned(r) : r \in ClimateResponses}
LlmOutcomes ==
    {Raised, Returned([text |-> "<weatherPatterns>...</weatherPatterns>"])}

ErrorBanner == "An error occurred"

\* retry(cache_session, retries=5, backoff_factor=0.2): the session the
\* Open-Meteo client sends its request through re-sends a failed request
\* this many times before the call raises
ClimateRetries == 5
\* the HTTP requests that can fail before the outcome of the one weather_api
\* call: an error the session does not retry raises at once, a failure it
\* retries is followed by another request until ClimateRetries are used up
FailedAttempts == 0..ClimateRetries

\* an exception raised by the call `stage`
Exception(stage) == [t |-> "exception", stage |-> stage]

\* a handler that swallows the exception
except_pass(b, e) == b
\* except Exception as e: st.error(f"An error occurred: {str(e)}")
except_clause(b, e) == Append(b, ErrorBanner)

ReqInit ==
    /\ pc = "idle"
    /\ address = ""
    /\ year = 0
    /\ geo_data = None
    /\ location_data = None
    /\ daily_df = None
    /\ df = None
    /\ prompt = None
    /\ response_text = None
    /\ banner = <<>>
    /\ calls = <<>>
    /\ http_attempts = 0
    /\ caught = None

\* `if submit and address:` and, inside the try, get_location_data(address)
\* and `if location_data:`
Submit ==
    /\ pc = "idle"
    /\ \E addr \in Addresses, y \in PickedYears, geo \in GeoOutcomes :
        /\ address' = addr
        /\ year' = y
        /\ IF addr = ""
           THEN /\ pc' = "done"
                /\ UNCHANGED <<geo_data, location_data, banner, calls, caught>>
           ELSE /\ calls' = Append(calls, "get_location_data")
                /\ IF geo.raises
                   THEN /\ caught' = Exception("get_location_data")
                        /\ banner' = except_clause(banner, caught')
                        /\ pc' = "done"
                        /\ UNCHANGED <<geo_data, location_data>>
                   ELSE /\ geo_data' = geo.value
                        /\ location_data' = get_location_data(geo.value)
                        /\ pc' = IF Truthy(get_location_data(geo.value))
                                 THEN "located" ELSE "done"
                        /\ UNCHANGED <<banner, caught>>
    /\ UNCHANGED <<daily_df, df, prompt, response_text, http_attempts>>
    /\ UNCHANGED <<anaVars, diffVars>>

\* df = get_climate_data(lat, lon)
FetchClimate ==
    /\ pc = "located"
    /\ calls' = Append(calls, "get_climate_data")
    /\ \E r \in ClimateOutcomes, failed \in FailedAttempts :
        /\ http_attempts' = failed + 1
        /\ IF r.raises
           THEN /\ caught' = Exception("get_climate_data")
                /\ banner' = except_clause(banner, caught')
                /\ pc' = "done"
                /\ UNCHANGED <<daily_df, df>>
           ELSE /\ daily_df' = DailyFrame(r.value)
                /\ df' = get_climate_data(r.value)
                /\ pc' = "fetched"
                /\ UNCHANGED <<banner, caught>>
    /\ UNCHANGED <<address, year, geo_data, location_data, prompt,
                   response_text>>
    /\ UNCHANGED <<anaVars, diffVars>>

\* response_text = get_ai_analysis(location_name, df, year) and the display
\* of its sections
Analyse ==
    /\ pc = "fetched"
    /\ calls' = calls \o <<"get_ai_analysis",
                           "calculate_temp_mean", "calculate_temp_mean",
                           "calculate_seasonal_metrics",
                           "calculate_seasonal_metrics",
                           "calculate_temp_mean", "calculate_temp_mean",
                           "messages.create">>
    /\ prompt' = PromptOf(location_data.name, df, year)
    /\ \E r \in LlmOutcomes :
        IF r.raises
        THEN /\ caught' = Exception("messages.create")
             /\ banner' = except_clause(banner, caught')
             /\ UNCHANGED response_text
        ELSE /\ response_text' = r.value
             /\ UNCHANGED <<banner, caught>>
    /\ pc' = "done"
    /\ UNCHANGED <<address, year, geo_data, location_data, daily_df, df,
                   http_attempts>>
    /\ UNCHANGED <<anaVars, diffVars>>

\* the values of the variables of analyze_climate_data and compute_changes
\* while the model follows a request
AnaParked ==
    /\ a_pc = "parked"
    /\ a_df = None
    /\ a_in = None
    /\ a_runs = <<>>
DiffParked ==
    /\ d_pc = "parked"
    /\ d_current = None
    /\ d_future = None
    /\ d_out = None
ReqParked ==
    /\ pc = "parked"
    /\ address = ""
    /\ year = 0
    /\ geo_data = None
    /\ location_data = None
    /\ daily_df = None
    /\ df = None
    /\ prompt = None
    /\ response_text = None
    /\ banner = <<>>
    /\ calls = <<>>
    /\ http_attempts = 0
    /\ caught = None

Init == ReqInit /\ AnaParked /\ DiffParked
Next == Submit \/ FetchClimate \/ Analyse
Spec == Init /\ [][Next]_vars

InitAnalyze == ReqParked /\ AnaInit /\ DiffParked
NextAnalyze == Analyze \/ AnalyzeAgain
SpecAnalyze == InitAnalyze /\ [][NextAnalyze]_vars

InitDiff == ReqParked /\ AnaParked /\ DiffInit
NextDiff == Diff
SpecDiff == InitDiff /\ [][NextDiff]_vars

(***************************************************************************)
(* Claims on the request and on the monthly aggregation (Spec)             *)
(***************************************************************************)
\* the (year, month) pairs of the days of the daily frame
DailyYearMonths ==
    {<<DtYear(daily_df["date"][k] \div DaysPerMonth),
       DtMonth(daily_df["date"][k] \div DaysPerMonth)>> :
        k \in 1..Len(daily_df["date"])}
\* the (year, month) pair of row k of the monthly frame
MonthlyYearMonth(k) == <<DtYear(df["date"][k]), DtMonth(df["date"][k])>>

\* C3: the monthly frame has exactly one row per (year, month) pair present
\* in the daily frame, none for a month without days, in ascending
\* chronological order; no days give no rows.
C3_OneRowPerMonthPresent ==
    df # None =>
        /\ {MonthlyYearMonth(k) : k \in 1..NRows(df)} = DailyYearMonths
        /\ NRows(df) = Cardinality(DailyYearMonths)
        /\ \A i, j \in 1..NRows(df) :
              i < j =>
                \/ MonthlyYearMonth(i)[1] < MonthlyYearMonth(j)[1]
                \/ /\ MonthlyYearMonth(i)[1] = MonthlyYearMonth(j)[1]
                   /\ MonthlyYearMonth(i)[2] < MonthlyYearMonth(j)[2]
        /\ (NRows(daily_df) = 0 => NRows(df) = 0)

\* three months, one of them with two days
C3_Witness ==
    /\ df # None
    /\ NRows(df) = 3
    /\ NRows(daily_df) > 3

\* the days of the daily frame that fall in the month of monthly row k
DaysOfRow(k) ==
    {i \in 1..NRows(daily_df) :
        <<DtYear(daily_df["date"][i] \div DaysPerMonth),
          DtMonth(daily_df["date"][i] \div DaysPerMonth)>>
            = MonthlyYearMonth(k)}

RECURSIVE IntSum(_, _)
\* the integer sum of column col of the daily frame over the rows in S
IntSum(col, S) ==
    IF S = {} THEN 0
    ELSE LET i == CHOOSE x \in S : TRUE
         IN  daily_df[col][i].n + IntSum(col, S \ {i})

SumReduced == {"shortwave_radiation_sum", "precipitation_sum", "snowfall_sum"}
MeanReduced == {"temperature_2m_mean", "temperature_2m_max",
                "temperature_2m_min", "wind_speed_10m_max",
                "cloud_cover_mean", "relative_humidity_2m_max",
                "relative_humidity_2m_min"}

\* C4: every field of every monthly row is its reducer over the daily values
\* of that month: the sum for radiation, precipitation and snowfall, the
\* mean (sum divided by the number of days) for the other seven.
C4_FieldReducers ==
    df # None =>
        \A k \in 1..NRows(df) :
            /\ \A c \in SumReduced :
                  /\ df[c][k].d = 1
                  /\ df[c][k].n = IntSum(c, DaysOfRow(k))
            /\ \A c \in MeanReduced :
                  /\ df[c][k].d > 0
                  /\ df[c][k].n * Cardinality(DaysOfRow(k))
                        = df[c][k].d * IntSum(c, DaysOfRow(k))

\* a month of two days with different precipitation
C4_Witness ==
    /\ df # None
    /\ \E k \in 1..NRows(df) :
          /\ Cardinality(DaysOfRow(k)) = 2
          /\ \E i, j \in DaysOfRow(k) :
                daily_df["precipitation_sum"][i]
                    # daily_df["precipitation_sum"][j]

\* C9 as claimed: when the generation collaborator is called, the window
\* analysis (selector, statistics, differ) has run earlier in the request,
\* the prompt holds its current and future statistics and change map, and
\* building the prompt computed no statistics.
C9_PromptFromWindowAnalysis ==
    "messages.create" \in Range(calls) =>
        /\ \E i, j \in 1..Len(calls) :
              /\ i < j
              /\ calls[i] = "analyze_climate_data"
              /\ calls[j] = "get_ai_analysis"
        /\ {"current", "future", "changes"} \subseteq DOMAIN prompt
        /\ "calculate_temp_mean" \notin Range(calls)
        /\ "calculate_seasonal_metrics" \notin Range(calls)

\* C10: when the geocoding response holds no results, get_location_data
\* returns None, and the request ends with no climate fetch, no generation
\* call and no error banner.
C10_NoMatchEndsQuietly ==
    (geo_data # None /\ ~TruthyList(geo_data, "results")) =>
        /\ location_data = None
        /\ pc = "done"
        /\ calls = <<"get_location_data">>
        /\ banner = <<>>
        /\ df = None
        /\ prompt = None

\* a response with an empty result list has been handled
C10_Witness ==
    /\ geo_data # None
    /\ "results" \in DOMAIN geo_data
    /\ geo_data["results"] = <<>>
    /\ pc = "done"

\* how often the call `name` was made in the request
TimesCalled(name) == Cardinality({k \in 1..Len(calls) : calls[k] = name})
\* the collaborator calls of a request, in pipeline order
Stages == <<"get_location_data", "get_climate_data", "messages.create">>
\* the position of a collaborator call in the pipeline
StageNo(name) == CHOOSE k \in 1..Len(Stages) : Stages[k] = name

\* C11: when a collaborator call (geocoding, climate fetch, generation)
\* raises, the handler has made that call once and does not make it again,
\* the raising call is the last call of the request (no later stage runs and
\* nothing a later stage produces exists), and the request has ended with the
\* error banner shown once.
C11_UpstreamFailureSurfaces ==
    caught # None =>
        /\ caught.stage \in Range(Stages)
        /\ TimesCalled(caught.stage) = 1
        /\ calls[Len(calls)] = caught.stage
        /\ \A k \in 1..Len(Stages) :
              k > StageNo(caught.stage) => TimesCalled(Stages[k]) = 0
        /\ StageNo(caught.stage) <= 1 => location_data = None
        /\ StageNo(caught.stage) <= 2 => (daily_df = None /\ df = None /\ prompt = None)
        /\ response_text = None
        /\ banner = <<ErrorBanner>>
        /\ pc = "done"

\* the climate fetch raised after its session had used up its retries
C11_Witness ==
    /\ caught = Exception("get_climate_data")
    /\ http_attempts = ClimateRetries + 1
    /\ pc = "done"

(***************************************************************************)
(* Claims on analyze_climate_data (SpecAnalyze)                            *)
(***************************************************************************)
Runs == 1..Len(a_runs)

\* C1 as claimed: a call in which the current or the future window is empty
\* returns (the "insufficient data" result) and raises nothing.
C1_EmptyWindowReturns ==
    \A r \in Runs :
        (a_runs[r].current = None \/ a_runs[r].future = None)
            => ~a_runs[r].raises

\* the rows of the table whose year lies in the band around center
BandRows(center, w) ==
    {k \in 1..NRows(a_df) :
        /\ a_df["date"][k] \div 12 >= center - (w \div 2)
        /\ a_df["date"][k] \div 12 <= center + (w \div 2)}

\* window holds exactly the rows idx of the table, in the table's order
IsSelection(window, idx) ==
    /\ NRows(window) = Cardinality(idx)
    /\ \A j \in 1..NRows(window) :
          LET i == CHOOSE x \in idx : Cardinality({y \in idx : y < x}) = j - 1
          IN  \A c \in {"date"} \cup ClimateVarSet : window[c][j] = a_df[c][i]

\* C2: each window holds all and only the rows whose year is in
\* [center - w // 2, center + w // 2], in their order; sizes 4 and 5 around
\* 2030 select the years 2028..2032.
C2_WindowIsBand ==
    \A r \in Runs :
        /\ IsSelection(a_runs[r].current_window,
                       BandRows(a_in.now, a_in.window_size))
        /\ IsSelection(a_runs[r].future_window,
                       BandRows(a_in.target, a_in.window_size))
        /\ (a_in.now = 2030 /\ a_in.window_size \in {4, 5}) =>
              \A k \in 1..NRows(a_df) :
                  (a_df["date"][k] \div 12 \in 2028..2032)
                      <=> a_df["date"][k]
                            \in Range(a_runs[r].current_window["date"])

\* size 4 around 2030: a row of 2027 stays out, rows of 2028 are in
C2_Witness ==
    /\ a_runs # <<>>
    /\ a_in.now = 2030
    /\ a_in.window_size = 4
    /\ \E k \in 1..NRows(a_df) : a_df["date"][k] \div 12 = 2027
    /\ \E k \in 1..NRows(a_df) : a_df["date"][k] \div 12 = 2028
    /\ NRows(a_runs[1].current_window) = 2

\* the leaf of a statistics dict at group, key
Stat(stats, group, key) == stats.items[group].items[key].v

EventColumns == [hot_days_annual |-> "temperature_2m_max",
                 heavy_rain_annual |-> "precipitation_sum",
                 high_wind_annual |-> "wind_speed_10m_max"]

\* the number of rows of the window above its own 95th percentile
Exceeding(window, col) ==
    Cardinality({k \in 1..NRows(window) :
                    RGt(window[col][k], Quantile95(window[col]))})

RatesOf(stats, window) ==
    \A e \in DOMAIN EventColumns :
        LET rate == Stat(stats, "extreme_events", e)
            count == Exceeding(window, EventColumns[e])
        IN  /\ rate.d > 0
            /\ rate.n * a_in.window_size = rate.d * count
            /\ (count = a_in.window_size => rate = Num(1))

\* C7: in a window with rows each extreme-event rate is the number of rows
\* above the window's 95th percentile divided by window_size.
C7_RateDividesByWindowSize ==
    \A r \in Runs :
        /\ a_runs[r].current # None =>
              RatesOf(a_runs[r].current, a_runs[r].current_window)
        /\ a_runs[r].future # None =>
              RatesOf(a_runs[r].future, a_runs[r].future_window)

\* one row exceeds, and the years present are not window_size many
C7_Witness ==
    /\ a_runs # <<>>
    /\ a_runs[1].current # None
    /\ Exceeding(a_runs[1].current_window, "temperature_2m_max") = 1
    /\ Cardinality(Range(a_runs[1].current_window["year"]))
          # a_in.window_size
    /\ Stat(a_runs[1].current, "extreme_events", "hot_days_annual")
          = Rat(1, a_in.window_size)

\* the rows of a window that fall in a season
Bucket(window, g) ==
    {k \in 1..NRows(window) :
        (window["date"][k] % 12) + 1 \in SeasonMonths[g]}

RECURSIVE PrecipSum(_, _)
\* the integer sum of the precipitation of the rows S of a window
PrecipSum(window, S) ==
    IF S = {} THEN 0
    ELSE LET k == CHOOSE x \in S : TRUE
         IN  window["precipitation_sum"][k].n + PrecipSum(window, S \ {k})

PrecipTotalsOf(stats, window) ==
    \A g \in Range(SeasonNames) :
        LET total == stats.items["seasonal"].items[g].items["precip_total"].v
            rows == Bucket(window, g)
        IN  /\ rows = {} => IsNaN(total)
            /\ rows # {} =>
                  /\ total.d > 0
                  /\ total.n * Cardinality(rows)
                        = total.d * 3 * PrecipSum(window, rows)
            /\ {window["precipitation_sum"][k] : k \in rows}
                    = {Num(10), Num(20), Num(30)}
                 /\ Cardinality(rows) = 3
               => total = Num(60)

\* C8: precip_total of a season is three times the mean of the monthly
\* precipitation of the rows of that season, whatever their number.
C8_PrecipTotalIsMeanTimesThree ==
    \A r \in Runs :
        /\ a_runs[r].current # None =>
              PrecipTotalsOf(a_runs[r].current, a_runs[r].current_window)
        /\ a_runs[r].future # None =>
              PrecipTotalsOf(a_runs[r].future, a_runs[r].future_window)

\* a season of two rows, 10 and 20: the total is 45 and their sum 30
C8_Witness ==
    /\ a_runs # <<>>
    /\ a_runs[1].current # None
    /\ \E g \in Range(SeasonNames) :
          /\ Cardinality(Bucket(a_runs[1].current_window, g)) = 2
          /\ PrecipSum(a_runs[1].current_window,
                       Bucket(a_runs[1].current_window, g)) = 30
          /\ a_runs[1].current.items["seasonal"].items[g]
                .items["precip_total"].v = Num(45)

RECURSIVE LeafPaths(_)
\* the key paths to the leaves of a nested dict
LeafPaths(tree) ==
    IF tree.t = "leaf" THEN {<<>>}
    ELSE UNION {{<<k>> \o q : q \in LeafPaths(tree.items[k])} :
                    k \in Range(tree.keys)}

RECURSIVE LeafAt(_, _)
LeafAt(tree, path) ==
    IF path = <<>> THEN tree.v ELSE LeafAt(tree.items[Head(path)], Tail(path))

RECURSIVE ChangeKey(_)
\* the keys of a path joined with '_', then '_change'
ChangeKey(path) ==
    IF path = <<>> THEN "change" ELSE Head(path) \o "_" \o ChangeKey(Tail(path))

\* C5: for two statistics dicts of the same shape compute_changes returns
\* one entry per leaf, keyed by the leaf's path joined with '_' and
\* '_change', of value future minus current; distinct leaves have distinct
\* keys.
C5_DiffLaw ==
    \A r \in Runs :
        (a_runs[r].current # None /\ a_runs[r].future # None) =>
            LET A == a_runs[r].current
                B == a_runs[r].future
                changes == a_runs[r].changes
            IN  /\ ~a_runs[r].raises
                /\ LeafPaths(A) = LeafPaths(B)
                /\ DOMAIN changes = {ChangeKey(q) : q \in LeafPaths(A)}
                /\ Cardinality(DOMAIN changes) = Cardinality(LeafPaths(A))
                /\ \A q \in LeafPaths(A) :
                      changes[ChangeKey(q)] = RSub(LeafAt(B, q), LeafAt(A, q))

\* both windows have rows and the mean temperature changes
C5_Witness ==
    /\ a_runs # <<>>
    /\ a_runs[1].current # None
    /\ a_runs[1].future # None
    /\ ~a_runs[1].raises
    /\ "seasonal_winter_temp_mean_change" \in DOMAIN a_runs[1].changes
    /\ a_runs[1].changes["means_temp_mean_change"] \notin {Num(0), NaN}

\* C12: a second call of analyze_climate_data on the same table, with the
\* same dates and window size, computes the same windows and the same
\* WindowStatistics (and returns or raises the same) as the first, and the
\* table the calls leave behind, with its year and month columns, is the
\* table a further call would leave behind.
C12_Idempotent ==
    /\ Len(a_runs) = 2 =>
          /\ a_runs[2].current = a_runs[1].current
          /\ a_runs[2].future = a_runs[1].future
          /\ a_runs[2] = a_runs[1]
    /\ a_pc # "input" /\ a_df # None =>
          /\ {"year", "month"} \subseteq DOMAIN a_df
          /\ WithYearMonth(a_df) = a_df

\* two calls have been made and both windows had rows
C12_Witness ==
    /\ a_pc = "again"
    /\ Len(a_runs) = 2
    /\ ~a_runs[2].raises
    /\ a_runs[2].current # None
    /\ a_runs[2].future # None
    /\ NRows(a_runs[2].current_window) > 1

\* the four season keys and the months of each
SeasonKeys == {"winter", "spring", "summer", "autumn"}
FixedBuckets == [winter |-> {12, 1, 2}, spring |-> {3, 4, 5},
                 summer |-> {6, 7, 8}, autumn |-> {9, 10, 11}]
\* the rows get_window_stats selects for season g of a window
SeasonRows(window, g) == SeasonData(window, SeasonMonths[g])

SeasonsPartition(stats, window) ==
    /\ DOMAIN SeasonMonths = SeasonKeys
    /\ \A g \in SeasonKeys :
          \A k \in 1..NRows(SeasonRows(window, g)) :
              DtMonth(SeasonRows(window, g)["date"][k]) \in FixedBuckets[g]
    /\ \A k \in 1..NRows(window) :
          Cardinality({g \in SeasonKeys :
              DtMonth(window["date"][k]) \in SeasonMonths[g]}) = 1
    /\ NRows(SeasonRows(window, "winter")) + NRows(SeasonRows(window, "spring"))
          + NRows(SeasonRows(window, "summer"))
          + NRows(SeasonRows(window, "autumn")) = NRows(window)
    /\ Len(stats.items["seasonal"].keys) = 4
    /\ Range(stats.items["seasonal"].keys) = SeasonKeys
    /\ DOMAIN stats.items["seasonal"].items = SeasonKeys

\* C13: the season lists are winter {12,1,2}, spring {3,4,5}, summer {6,7,8},
\* autumn {9,10,11}; every month 1..12, and so every row of a window, is in
\* exactly one of them, the rows selected for the four seasons are as many as
\* the rows of the window, and the seasonal statistics of every window have
\* exactly the four season keys.
C13_SeasonsPartitionWindow ==
    /\ \A m \in 1..12 :
          Cardinality({g \in DOMAIN SeasonMonths : m \in SeasonMonths[g]}) = 1
    /\ \A r \in Runs :
          /\ a_runs[r].current # None =>
                SeasonsPartition(a_runs[r].current, a_runs[r].current_window)
          /\ a_runs[r].future # None =>
                SeasonsPartition(a_runs[r].future, a_runs[r].future_window)

\* a window of a November row and a December row: one autumn row, one
\* winter row, no row in spring or summer
C13_Witness ==
    \E r \in Runs :
        /\ a_runs[r].current # None
        /\ a_runs[r].current_window["month"] = <<11, 12>>
        /\ NRows(SeasonRows(a_runs[r].current_window, "autumn")) = 1
        /\ NRows(SeasonRows(a_runs[r].current_window, "winter")) = 1
        /\ NRows(SeasonRows(a_runs[r].current_window, "spring")) = 0

(***************************************************************************)
(* Claims on compute_changes alone (SpecDiff)                              *)
(***************************************************************************)
RECURSIVE KeySetsDiffer(_, _)
\* two dicts whose key sets differ, here or in a dict below a shared key
KeySetsDiffer(current, future) ==
    /\ current.t = "dict"
    /\ future.t = "dict"
    /\ \/ Range(current.keys) # Range(future.keys)
       \/ \E k \in Range(current.keys) \cap Range(future.keys) :
              KeySetsDiffer(current.items[k], future.items[k])

====
